---- MODULE Spec2Model ----
(***************************************************************************)
(* Model of covidmx/serendipia.py: class Serendipia.                       *)
(*                                                                         *)
(* A calendar date is a record [y, m, d].  A date string is the sequence   *)
(* of the numbers its fields spell, in the order of the directives of the  *)
(* format that produced it ("01-05-2020" under %d-%m-%Y is <<1, 5, 2020>>);*)
(* a date format is the sequence of its directives.  A Python value passed *)
(* to the constructor is a record [t, v]: t is its type, v its content.    *)
(* A fetched table is a record of what clean_data looks at: whether the    *)
(* n_caso column exists after renaming, the state of the column            *)
(* fecha_de_inicio_de_sintomas, and the content of fecha_busqueda.         *)
(***************************************************************************)
EXTENDS Integers, Sequences, FiniteSets, TLC

\* ---------------------------------------------------------------- bounds
MaxDates == 2      \* longest list passed as date
MaxKinds == 2      \* longest list passed as kind
MaxTimes == 3      \* largest max_times of a direct search_data call

\* ------------------------------------------------------------- constants
SearchMaxTimes == 5                     \* read_data: self.search_data(5, kind)
allowed_kinds == <<"positivos", "sospechosos">>

DefaultFormat == <<"d", "m", "Y">>      \* '%d-%m-%Y'
ShortFormat == <<"d", "m">>             \* '%d-%m'
Formats == {DefaultFormat, ShortFormat}

\* the days pd.to_datetime('today') may answer
Todays == {[y |-> 2020, m |-> 5, d |-> 2],
           [y |-> 2020, m |-> 3, d |-> 2],
           [y |-> 2021, m |-> 1, d |-> 2]}

\* date strings a caller may pass
DateStrings == {<<1, 5, 2020>>, <<2, 5>>, <<>>}
\* kind strings a caller may pass
KindStrings == {"positivos", "sospechosos", "", "otros"}

NoDate == [y |-> 0, m |-> 0, d |-> 0]
Absent == <<0>>                         \* a column that does not exist

\* ------------------------------------------------------------- sequences
RECURSIVE SeqsUpTo(_, _)
SeqsUpTo(S, n) ==
    IF n = 0 THEN {<<>>}
    ELSE LET shorter == SeqsUpTo(S, n - 1)
         IN  shorter \cup {Append(q, x) : q \in {r \in shorter : Len(r) = n - 1}, x \in S}

Range(q) == {q[i] : i \in 1..Len(q)}

\* ------------------------------------------------------------ Python values
PyNone == [t |-> "none", v |-> <<>>]
PyOther == [t |-> "other", v |-> <<>>]
PyStr(s) == [t |-> "str", v |-> s]
PyList(l) == [t |-> "list", v |-> l]

\* bool(x) of Python: None, '' and [] are false; empty is the empty string of
\* the kind of string x may hold
Truthy(x, empty) ==
    CASE x.t = "none" -> FALSE
      [] x.t = "str" -> x.v /= empty
      [] x.t = "list" -> x.v /= <<>>
      [] OTHER -> TRUE

DateInputs ==
    {PyNone, PyOther} \cup {PyStr(s) : s \in DateStrings}
        \cup {PyList(l) : l \in SeqsUpTo({PyStr(s) : s \in DateStrings}, MaxDates)}

KindInputs ==
    {PyNone, PyOther} \cup {PyStr(s) : s \in KindStrings}
        \cup {PyList(l) : l \in SeqsUpTo({"positivos", "sospechosos", "otros"}, MaxKinds)}

\* ---------------------------------------------------------------- calendar
IsLeap(y) == (y % 4 = 0 /\ y % 100 /= 0) \/ y % 400 = 0

DaysInMonth(y, m) ==
    IF m = 2 THEN (IF IsLeap(y) THEN 29 ELSE 28)
    ELSE IF m \in {4, 6, 9, 11} THEN 30 ELSE 31

PrevDay(dt) ==
    IF dt.d > 1 THEN [dt EXCEPT !.d = dt.d - 1]
    ELSE IF dt.m > 1 THEN [y |-> dt.y, m |-> dt.m - 1, d |-> DaysInMonth(dt.y, dt.m - 1)]
    ELSE [y |-> dt.y - 1, m |-> 12, d |-> 31]

RECURSIVE DaysBack(_, _)
DaysBack(dt, n) == IF n = 0 THEN dt ELSE DaysBack(PrevDay(dt), n - 1)

\* date.strftime(fmt)
Strftime(dt, fmt) ==
    [i \in 1..Len(fmt) |->
        CASE fmt[i] = "d" -> dt.d
          [] fmt[i] = "m" -> dt.m
          [] fmt[i] = "Y" -> dt.y]

\* the value of directive c in string s read under fmt, dflt when fmt lacks c
Field(s, fmt, c, dflt) ==
    IF \E i \in 1..Len(fmt) : fmt[i] = c
    THEN s[CHOOSE i \in 1..Len(fmt) : fmt[i] = c]
    ELSE dflt

\* pd.to_datetime(s, format=fmt): ok is FALSE when it raises, nat is TRUE when
\* it answers NaT (the empty string)
ToDatetime(s, fmt) ==
    IF s = <<>> THEN [ok |-> TRUE, nat |-> TRUE, dt |-> NoDate]
    ELSE IF Len(s) /= Len(fmt) THEN [ok |-> FALSE, nat |-> FALSE, dt |-> NoDate]
    ELSE LET y == Field(s, fmt, "Y", 1900)
             m == Field(s, fmt, "m", 1)
             d == Field(s, fmt, "d", 1)
         IN  IF y \in 1..9999 /\ m \in 1..12 /\ d \in 1..DaysInMonth(y, m)
             THEN [ok |-> TRUE, nat |-> FALSE, dt |-> [y |-> y, m |-> m, d |-> d]]
             ELSE [ok |-> FALSE, nat |-> FALSE, dt |-> NoDate]

\* ------------------------------------------------------------------ get_url
NoUrl == [year |-> 0, month |-> 0, kind |-> "", indre |-> FALSE, token |-> NoDate]

\* get_url with the template of 'positivos' used for every kind
get_url_one_template(date, kind, date_format) ==
    LET date_f == ToDatetime(date, date_format)
    IN  IF ~date_f.ok \/ date_f.nat
        THEN [err |-> "ValueError", url |-> NoUrl]
        ELSE IF kind \notin Range(allowed_kinds)
        THEN [err |-> "AssertionError", url |-> NoUrl]
        ELSE [err |-> "none",
              url |-> [year |-> date_f.dt.y, month |-> date_f.dt.m, kind |-> kind,
                       indre |-> TRUE, token |-> date_f.dt]]

get_url(date, kind, date_format) ==
    LET date_f == ToDatetime(date, date_format)
    IN  IF ~date_f.ok \/ date_f.nat
        THEN [err |-> "ValueError", url |-> NoUrl]
        ELSE IF kind \notin Range(allowed_kinds)
        THEN [err |-> "AssertionError", url |-> NoUrl]
        ELSE [err |-> "none",
              url |-> [year |-> date_f.dt.y, month |-> date_f.dt.m, kind |-> kind,
                       indre |-> (kind = "positivos"), token |-> date_f.dt]]

\* --------------------------------------------------------------- the tables
\* what pd.read_csv may answer for a URL that can be read
Tables ==
    {[n_caso |-> TRUE, sintomas |-> "ok", fecha_busqueda |-> Absent],
     [n_caso |-> FALSE, sintomas |-> "ok", fecha_busqueda |-> Absent],
     [n_caso |-> TRUE, sintomas |-> "bad", fecha_busqueda |-> Absent],
     [n_caso |-> TRUE, sintomas |-> "absent", fecha_busqueda |-> Absent],
     [n_caso |-> TRUE, sintomas |-> "ok", fecha_busqueda |-> <<1, 5, 2020>>]}

NoTable == [n_caso |-> FALSE, sintomas |-> "absent", fecha_busqueda |-> Absent]

\* pd.read_csv(url): it raises, or it answers a table
FetchOutcomes == {[ok |-> FALSE, df |-> NoTable]} \cup {[ok |-> TRUE, df |-> t] : t \in Tables}

\* df['fecha_busqueda'] = value, when add_search_date
AddSearchDate(df, add_search_date, value) ==
    IF add_search_date THEN [df EXCEPT !.fecha_busqueda = value] ELSE df

\* clean_data(df): the first statement that raises decides the error
clean_data(df, date_format) ==
    IF ~df.n_caso THEN [err |-> "KeyError", col |-> "n_caso", df |-> df]
    ELSE IF df.fecha_busqueda = Absent
    THEN [err |-> "KeyError", col |-> "fecha_busqueda", df |-> df]
    ELSE IF ~ToDatetime(df.fecha_busqueda, date_format).ok
    THEN [err |-> "ValueError", col |-> "fecha_busqueda", df |-> df]
    ELSE IF df.sintomas = "absent"
    THEN [err |-> "KeyError", col |-> "fecha_de_inicio_de_sintomas", df |-> df]
    ELSE IF df.sintomas = "bad"
    THEN [err |-> "ValueError", col |-> "fecha_de_inicio_de_sintomas", df |-> df]
    ELSE [err |-> "none", col |-> "", df |-> [df EXCEPT !.sintomas = "datetime"]]

\* ------------------------------------------------------------------ __init__
NoError == [type |-> "none", msg |-> "", kind |-> "", date |-> <<>>]
Error(type, msg) == [type |-> type, msg |-> msg, kind |-> "", date |-> <<>>]
ErrorAt(type, msg, kind, date) == [type |-> type, msg |-> msg, kind |-> kind, date |-> date]

\* __init__ without the assertion on a kind string
InitError_no_assert(date, kind) ==
    IF date.t \notin {"str", "list", "none"}
    THEN Error("ValueError", "date must be string or list")
    ELSE IF kind.t \notin {"str", "list", "none"}
    THEN Error("ValueError", "kind must be string or list")
    ELSE NoError

\* what __init__ raises for the arguments (date, kind)
InitError(date, kind) ==
    IF date.t \notin {"str", "list", "none"}
    THEN Error("ValueError", "date must be string or list")
    ELSE IF kind.t \notin {"str", "list", "none"}
    THEN Error("ValueError", "kind must be string or list")
    ELSE IF kind.t = "str" /\ kind.v \notin Range(allowed_kinds)
    THEN Error("AssertionError", "Serendipia source only considers")
    ELSE NoError

\* self.search_date
InitSearchDate(date) == ~Truthy(date, <<>>)

\* self.date
InitDate(date) == IF date.t \in {"str", "none"} THEN <<date>> ELSE date.v

\* self.kind: has is FALSE when __init__ leaves the attribute unset
InitKind(kind) ==
    IF kind.t = "str" THEN [has |-> TRUE, v |-> <<kind.v>>]
    ELSE IF ~Truthy(kind, "") THEN [has |-> TRUE, v |-> allowed_kinds]
    ELSE [has |-> FALSE, v |-> <<>>]

\* product(a, b) of itertools
RECURSIVE product(_, _)
product(a, b) ==
    IF a = <<>> THEN <<>>
    ELSE [j \in 1..Len(b) |-> [date |-> Head(a), kind |-> b[j]]] \o product(Tail(a), b)

\* the date range without the reversal [::-1]
search_dates_ascending(today, max_times) ==
    [k \in 1..max_times |-> DaysBack(today, max_times - k)]

\* pd.date_range(end=today, periods=max_times)[::-1]
search_dates(today, max_times) == [i \in 1..max_times |-> DaysBack(today, i - 1)]

\* --------------------------------------------------------------------- state
VARIABLES
    pc,         \* "new", "failed", "ready", "read", "search", "clean", "done"
    op,         \* the method the caller invoked: "", "get_data", "search_data", "get_url"
    args,       \* the arguments of the constructor call
    self,       \* the attributes of the object
    err,        \* the exception the call ended with
    fetchLog,   \* the pd.read_csv calls made so far, in order
    i,          \* get_data: position in product(self.date, self.kind)
    dfs,        \* get_data: the tables read (then cleaned) so far
    j,          \* get_data: position of the cleaning loop in dfs
    search,     \* search_data: its arguments and locals
    ret,        \* what the call returned
    call        \* the arguments of a get_url call made by the caller

vars == <<pc, op, args, self, err, fetchLog, i, dfs, j, search, ret, call>>

NoSelf == [search_date |-> FALSE, date |-> <<>>, kind |-> [has |-> FALSE, v |-> <<>>],
           clean |-> FALSE, add_search_date |-> FALSE, date_format |-> <<>>]
NoArgs == [date |-> PyNone, kind |-> PyNone]
NoSearch == [max_times |-> 0, kind |-> "", today |-> NoDate, dates |-> <<>>, n |-> 0, base |-> 0]
NoRet == [t |-> "none", v |-> <<>>, date |-> <<>>, url |-> NoUrl]
NoCall == [date |-> <<>>, kind |-> ""]

Init ==
    /\ pc = "new"
    /\ op = ""
    /\ args = NoArgs
    /\ self = NoSelf
    /\ err = NoError
    /\ fetchLog = <<>>
    /\ i = 0
    /\ dfs = <<>>
    /\ j = 0
    /\ search = NoSearch
    /\ ret = NoRet
    /\ call = NoCall

\* Serendipia(date, kind, clean, add_search_date, date_format)
Construct(date, kind, clean, add_search_date, date_format) ==
    /\ pc = "new"
    /\ args' = [date |-> date, kind |-> kind]
    /\ err' = InitError(date, kind)
    /\ IF InitError(date, kind).type /= "none"
       THEN /\ pc' = "failed"
            /\ self' = self
       ELSE /\ pc' = "ready"
            /\ self' = [search_date |-> InitSearchDate(date),
                        date |-> InitDate(date),
                        kind |-> InitKind(kind),
                        clean |-> clean,
                        add_search_date |-> add_search_date,
                        date_format |-> date_format]
    /\ UNCHANGED <<op, fetchLog, i, dfs, j, search, ret, call>>

pairs == product(self.date, self.kind.v)

\* one pd.read_csv call, as fetchLog records it: date is the date string the
\* URL was built from, via the method that made the call
Fetch(url, date, kind, ok, via) ==
    [url |-> url, date |-> date, kind |-> kind, ok |-> ok, via |-> via]

\* the call ends with the exception e
Raise(e) ==
    /\ pc' = "done"
    /\ err' = e

\* ------------------------------------------------------------------ get_data
\* get_data() is called: product(self.date, self.kind) is evaluated
GetDataCall ==
    /\ pc = "ready"
    /\ op' = "get_data"
    /\ IF ~self.kind.has
       THEN /\ Raise(Error("AttributeError", "kind"))
            /\ i' = i
       ELSE /\ pc' = "read"
            /\ i' = 1
            /\ err' = err
    /\ UNCHANGED <<args, self, fetchLog, dfs, j, search, ret, call>>

\* read_data skipping a combination whose fetch failed
ReadFailure_skip(kind, date) ==
    /\ i' = i + 1
    /\ UNCHANGED <<pc, err, dfs>>

\* read_data raising an error that does not name the kind and the date
ReadFailure_no_context(kind, date) ==
    /\ Raise(Error("RuntimeError", "Cannot read the data"))
    /\ UNCHANGED <<dfs, i>>

\* read_data, except BaseException: raise RuntimeError(...)
ReadFailure(kind, date) ==
    /\ Raise(ErrorAt("RuntimeError", "Cannot read the data", kind, date))
    /\ UNCHANGED <<dfs, i>>

\* read_data(date, kind) with self.search_date false, for the next pair
ReadExplicit(outcome) ==
    /\ pc = "read"
    /\ i <= Len(pairs)
    /\ ~self.search_date
    /\ LET date == pairs[i].date.v
           kind == pairs[i].kind
           u == get_url(date, kind, self.date_format)
       IN  IF u.err /= "none"
           THEN /\ Raise(Error(u.err, "get_url"))
                /\ UNCHANGED <<fetchLog, dfs, i>>
           ELSE /\ fetchLog' = Append(fetchLog, Fetch(u.url, date, kind, outcome.ok, "read_data"))
                /\ IF outcome.ok
                   THEN /\ dfs' = Append(dfs, AddSearchDate(outcome.df, self.add_search_date, date))
                        /\ i' = i + 1
                        /\ UNCHANGED <<pc, err>>
                   ELSE ReadFailure(kind, date)
    /\ UNCHANGED <<op, args, self, j, search, ret, call>>

\* the locals of search_data(max_times, kind) when its loop starts
SearchLocals(max_times, kind, today) ==
    [max_times |-> max_times, kind |-> kind, today |-> today,
     dates |-> search_dates(today, max_times), n |-> 1, base |-> Len(fetchLog)]

\* read_data(date, kind) with self.search_date true, for the next pair:
\* search_data(5, kind) is entered
ReadSearch(today) ==
    /\ pc = "read"
    /\ i <= Len(pairs)
    /\ self.search_date
    /\ search' = SearchLocals(SearchMaxTimes, pairs[i].kind, today)
    /\ pc' = "search"
    /\ UNCHANGED <<op, args, self, err, fetchLog, i, dfs, j, ret, call>>

\* all pairs are read: without clean the list of tables is returned
ReadDone ==
    /\ pc = "read"
    /\ i > Len(pairs)
    /\ IF self.clean
       THEN /\ pc' = "clean"
            /\ j' = 1
            /\ ret' = ret
       ELSE /\ pc' = "done"
            /\ ret' = [NoRet EXCEPT !.t = "list", !.v = dfs]
            /\ j' = j
    /\ UNCHANGED <<op, args, self, err, fetchLog, i, dfs, search, call>>

\* clean_data(df) for the next table of dfs
CleanStep ==
    /\ pc = "clean"
    /\ j <= Len(dfs)
    /\ LET c == clean_data(dfs[j], self.date_format)
       IN  IF c.err /= "none"
           THEN /\ Raise(Error(c.err, c.col))
                /\ UNCHANGED <<dfs, j>>
           ELSE /\ dfs' = [dfs EXCEPT ![j] = c.df]
                /\ j' = j + 1
                /\ UNCHANGED <<pc, err>>
    /\ UNCHANGED <<op, args, self, fetchLog, i, search, ret, call>>

\* pd.concat(dfs): it raises on an empty list
Concat ==
    /\ pc = "clean"
    /\ j > Len(dfs)
    /\ IF dfs = <<>>
       THEN /\ Raise(Error("ValueError", "No objects to concatenate"))
            /\ ret' = ret
       ELSE /\ pc' = "done"
            /\ ret' = [NoRet EXCEPT !.t = "table", !.v = dfs]
            /\ err' = err
    /\ UNCHANGED <<op, args, self, fetchLog, i, dfs, j, search, call>>

\* --------------------------------------------------------------- search_data
\* a caller invokes search_data(max_times, kind) on the object
SearchDataCall(max_times, kind, today) ==
    /\ pc = "ready"
    /\ op' = "search_data"
    /\ search' = SearchLocals(max_times, kind, today)
    /\ pc' = "search"
    /\ UNCHANGED <<args, self, err, fetchLog, i, dfs, j, ret, call>>

\* search_data returns (df, date_formatted) to its caller
SearchReturn(df, date_formatted) ==
    IF op = "get_data"
    THEN /\ dfs' = Append(dfs, AddSearchDate(df, self.add_search_date, date_formatted))
         /\ i' = i + 1
         /\ pc' = "read"
         /\ UNCHANGED <<ret, err>>
    ELSE /\ ret' = [NoRet EXCEPT !.t = "tuple", !.v = <<df>>, !.date = date_formatted]
         /\ pc' = "done"
         /\ UNCHANGED <<dfs, i, err>>

\* search_data raising at the first candidate whose fetch fails
SearchContinue_raise ==
    /\ Raise(ErrorAt("RuntimeError", "Cannot read the data", search.kind, <<>>))
    /\ UNCHANGED <<search, dfs, i, ret>>

\* search_data, except BaseException: continue
SearchContinue ==
    /\ search' = [search EXCEPT !.n = search.n + 1]
    /\ UNCHANGED <<pc, err, dfs, i, ret>>

\* one pass of the loop of search_data, where pd.read_csv answers outcome
SearchAttempt(outcome) ==
    /\ pc = "search"
    /\ search.n <= Len(search.dates)
    /\ LET date_formatted == Strftime(search.dates[search.n], self.date_format)
           u == get_url(date_formatted, search.kind, self.date_format)
       IN  IF u.err /= "none"
           THEN /\ Raise(Error(u.err, "get_url"))
                /\ UNCHANGED <<fetchLog, dfs, i, ret, search>>
           ELSE /\ fetchLog' = Append(fetchLog,
                        Fetch(u.url, date_formatted, search.kind, outcome.ok, "search_data"))
                /\ IF outcome.ok
                   THEN /\ SearchReturn(outcome.df, date_formatted)
                        /\ search' = search
                   ELSE SearchContinue
    /\ UNCHANGED <<op, args, self, j, call>>

\* the loop of search_data ends without a return
SearchExhausted ==
    /\ pc = "search"
    /\ search.n > Len(search.dates)
    /\ Raise(ErrorAt("RuntimeError", "No date found", search.kind, <<>>))
    /\ UNCHANGED <<op, args, self, fetchLog, i, dfs, j, search, ret, call>>

\* ------------------------------------------------------------------- get_url
\* a caller invokes get_url(date, kind) on the object
GetUrlCall(date, kind) ==
    /\ pc = "ready"
    /\ op' = "get_url"
    /\ LET u == get_url(date, kind, self.date_format)
       IN  IF u.err /= "none"
           THEN /\ Raise(Error(u.err, "get_url"))
                /\ ret' = ret
           ELSE /\ pc' = "done"
                /\ ret' = [NoRet EXCEPT !.t = "url", !.url = u.url]
                /\ err' = err
    /\ call' = [date |-> date, kind |-> kind]
    /\ UNCHANGED <<args, self, fetchLog, i, dfs, j, search>>

\* ---------------------------------------------------------------------- Next
Next ==
    \/ /\ pc = "new"
       /\ \E date \in DateInputs, kind \in KindInputs, clean \in BOOLEAN,
             add_search_date \in BOOLEAN, date_format \in Formats :
               Construct(date, kind, clean, add_search_date, date_format)
    \/ GetDataCall
    \/ /\ pc = "read"
       /\ \E outcome \in FetchOutcomes : ReadExplicit(outcome)
    \/ /\ pc = "read"
       /\ \E today \in Todays : ReadSearch(today)
    \/ ReadDone
    \/ CleanStep
    \/ Concat
    \/ /\ pc = "ready"
       /\ \E max_times \in 0..MaxTimes, kind \in KindStrings, today \in Todays :
               SearchDataCall(max_times, kind, today)
    \/ /\ pc = "search"
       /\ \E outcome \in FetchOutcomes : SearchAttempt(outcome)
    \/ SearchExhausted
    \/ /\ pc = "ready"
       /\ \E date \in DateStrings, kind \in KindStrings : GetUrlCall(date, kind)

Spec == Init /\ [][Next]_vars

\* ============================================================ properties
\* the number of the day dt, counted from 0001-01-01
RECURSIVE DaysBeforeMonth(_, _)
DaysBeforeMonth(y, m) == IF m = 1 THEN 0 ELSE DaysBeforeMonth(y, m - 1) + DaysInMonth(y, m - 1)
Ordinal(dt) ==
    365 * (dt.y - 1) + ((dt.y - 1) \div 4) - ((dt.y - 1) \div 100) + ((dt.y - 1) \div 400)
        + DaysBeforeMonth(dt.y, dt.m) + dt.d

\* a search_data call has been entered
Searched == search.today /= NoDate
\* the pd.read_csv calls of the search_data call entered last
SearchLog == SubSeq(fetchLog, search.base + 1, Len(fetchLog))
\* the fetches that answered a table
Successes == SelectSeq(fetchLog, LAMBDA f : f.ok)
NotFound == err.type = "RuntimeError" /\ err.msg = "No date found"
CannotRead == err.type = "RuntimeError" /\ err.msg = "Cannot read the data"

\* C1: search_data probes one candidate per fetch, the k-th fetch being for
\* the day k-1 days before today; it makes at most max_times fetches, none
\* after a successful one, and the date string it returns is the formatted
\* date of the candidate whose fetch succeeded.
C1_SearchMostRecentFirst ==
    Searched =>
        /\ Len(SearchLog) <= search.max_times
        /\ \A k \in 1..Len(SearchLog) :
            /\ Ordinal(search.dates[k]) = Ordinal(search.today) - (k - 1)
            /\ SearchLog[k].date = Strftime(search.dates[k], self.date_format)
            /\ SearchLog[k].kind = search.kind
            /\ SearchLog[k].via = "search_data"
            /\ k < Len(SearchLog) => ~SearchLog[k].ok
        /\ (pc = "search" => \A k \in 1..Len(SearchLog) : ~SearchLog[k].ok)
        /\ (ret.t = "tuple" =>
                /\ SearchLog /= <<>>
                /\ SearchLog[Len(SearchLog)].ok
                /\ ret.date = Strftime(search.dates[Len(SearchLog)], self.date_format)
                /\ ret.date = SearchLog[Len(SearchLog)].date)

\* a direct search_data call returned the third candidate, across a month end
C1_Witness ==
    /\ op = "search_data"
    /\ pc = "done"
    /\ ret.t = "tuple"
    /\ Len(fetchLog) = 3
    /\ search.today.m /= search.dates[3].m

\* C3: a finished search_data call ended with the not-found error naming its
\* kind exactly when it made max_times fetches and all of them failed; a
\* failed fetch of a candidate never surfaces as an error: the loop moves on.
C3_NotFoundIffAllFail ==
    Searched =>
        /\ (pc = "done" =>
              ((NotFound /\ err.kind = search.kind)
                  <=> (/\ Len(SearchLog) = search.max_times
                       /\ \A k \in 1..Len(SearchLog) : ~SearchLog[k].ok)))
        /\ ~CannotRead
        /\ (pc = "search" => err = NoError /\ search.n = Len(SearchLog) + 1)
        /\ (NotFound => pc = "done" /\ ret.t = "none")

\* a direct search_data call ended not-found after several failed fetches
C3_Witness ==
    /\ op = "search_data"
    /\ pc = "done"
    /\ NotFound
    /\ Len(fetchLog) >= 2

\* the read_data calls of get_data that have returned or raised
ReadCalls == IF err.type /= "none" /\ j = 0 THEN i ELSE i - 1

\* C4: in get_data, a failed fetch of read_data is the last fetch made and
\* leaves the call ended in an error; a call that ends in an error returns
\* nothing; a call that returns has fetched every combination successfully
\* and, with clean, has cleaned every table.
C4_NoPartialSuccess ==
    op = "get_data" =>
        /\ \A k \in 1..Len(fetchLog) :
              (fetchLog[k].via = "read_data" /\ ~fetchLog[k].ok) =>
                  k = Len(fetchLog) /\ pc = "done" /\ CannotRead
        /\ (err.type /= "none" => pc = "done" /\ ret.t = "none")
        /\ (ret.t /= "none" =>
              /\ err.type = "none"
              /\ Len(ret.v) = Len(pairs)
              /\ Len(Successes) = Len(pairs)
              /\ (self.clean => \A k \in 1..Len(ret.v) : ret.v[k].sintomas = "datetime"))

\* get_data ended in an error at the second of four combinations
C4_Witness ==
    /\ op = "get_data"
    /\ pc = "done"
    /\ CannotRead
    /\ Len(fetchLog) = 2
    /\ Len(pairs) = 4

\* C6: construction raises exactly when date is not a string, a list or
\* None, or kind is not a string, a list or None, or kind is a string other
\* than 'positivos' and 'sospechosos'; it raises before any fetch.
C6_ConstructionFails ==
    pc /= "new" =>
        /\ (pc = "failed" <=>
              \/ args.date.t \notin {"str", "list", "none"}
              \/ args.kind.t \notin {"str", "list", "none"}
              \/ (args.kind.t = "str" /\ args.kind.v /= "positivos" /\ args.kind.v /= "sospechosos"))
        /\ (pc = "failed" =>
              /\ err.type \in {"ValueError", "AssertionError"}
              /\ fetchLog = <<>>)

\* construction with kind='' failed
C6_Witness ==
    /\ pc = "failed"
    /\ args.kind = PyStr("")
    /\ args.date.t = "list"

\* what a get_url call must answer for the arguments in call
UrlRight ==
    /\ (call.kind /= "positivos" /\ call.kind /= "sospechosos" =>
            err.type /= "none" /\ ret.t = "none")
    /\ (ret.t = "url" =>
            /\ err.type = "none"
            /\ ret.url.kind = call.kind
            /\ (ret.url.indre <=> call.kind = "positivos")
            /\ ret.url.month = Field(call.date, self.date_format, "m", 1)
            /\ ret.url.year = Field(call.date, self.date_format, "Y", 1900)
            /\ ret.url.token = [y |-> ret.url.year, m |-> ret.url.month,
                                d |-> Field(call.date, self.date_format, "d", 1)])
    /\ ((/\ call.kind \in {"positivos", "sospechosos"}
         /\ call.date /= <<>>
         /\ Len(call.date) = Len(self.date_format)
         /\ Field(call.date, self.date_format, "m", 1) \in 1..12
         /\ Field(call.date, self.date_format, "d", 1) \in 1..28)
            => ret.t = "url")

\* C9: a get_url call raises for a kind other than 'positivos' and
\* 'sospechosos'; for an allowed kind and a date that parses it answers the
\* URL under the year and month of that date, with the InDRE infix exactly
\* for 'positivos'; the call makes no fetch and leaves the attributes of the
\* object as they were.
C9_GetUrl ==
    [][(pc = "ready" /\ op' = "get_url") =>
            /\ self' = self
            /\ fetchLog' = fetchLog
            /\ pc' = "done"
            /\ UrlRight']_vars

\* get_url answered a URL without the InDRE infix
C9_Witness ==
    /\ op = "get_url"
    /\ ret.t = "url"
    /\ call.kind = "sospechosos"
    /\ ~ret.url.indre
    /\ ret.url.year = 2020

\* the explicit date of the k-th combination of get_data
ExplicitDate(k) == pairs[k].date.v
\* get_url raised in read_data
UrlError == err.msg = "get_url"

\* C7 as stated: with explicit dates, every read_data call that has returned
\* or raised made exactly one fetch, for its date and kind, and a failed
\* fetch ends the call in the error that names them.
C7_Original ==
    (op = "get_data" /\ ~self.search_date /\ self.kind.has) =>
        /\ Len(fetchLog) = ReadCalls
        /\ \A k \in 1..Len(fetchLog) :
            /\ fetchLog[k].date = ExplicitDate(k)
            /\ fetchLog[k].kind = pairs[k].kind
            /\ ~fetchLog[k].ok => CannotRead /\ err.kind = pairs[k].kind /\ err.date = ExplicitDate(k)

\* C7 amended: with explicit dates, a read_data call whose URL can be built
\* makes exactly one fetch, at the URL of its date and kind, and a failed
\* fetch ends get_data in the error that names them; a read_data call whose
\* date does not parse under date_format raises the error of get_url and
\* makes no fetch; no backward search is entered.
C7_OneFetchPerExplicitDate ==
    (op = "get_data" /\ ~self.search_date /\ self.kind.has) =>
        /\ Len(fetchLog) = IF UrlError THEN ReadCalls - 1 ELSE ReadCalls
        /\ ~Searched
        /\ (UrlError =>
              /\ pc = "done"
              /\ LET p == ToDatetime(ExplicitDate(i), self.date_format)
                 IN  ~p.ok \/ p.nat)
        /\ \A k \in 1..Len(fetchLog) :
            /\ fetchLog[k].date = ExplicitDate(k)
            /\ fetchLog[k].kind = pairs[k].kind
            /\ fetchLog[k].via = "read_data"
            /\ fetchLog[k].url.kind = pairs[k].kind
            /\ fetchLog[k].url.token = ToDatetime(ExplicitDate(k), self.date_format).dt
            /\ ~fetchLog[k].ok =>
                  /\ k = Len(fetchLog)
                  /\ pc = "done"
                  /\ CannotRead /\ err.kind = pairs[k].kind /\ err.date = ExplicitDate(k)

\* an explicit request failed at its second fetch
C7_Witness ==
    /\ op = "get_data"
    /\ ~self.search_date
    /\ CannotRead
    /\ Len(fetchLog) = 2
    /\ err.kind = "sospechosos"
    /\ err.date = <<1, 5, 2020>>

\* the constructor was given a date and a kind of the documented shapes
Accepted ==
    /\ args.date.t \in {"str", "list", "none"}
    /\ \/ args.kind.t = "none"
       \/ args.kind.t = "str" /\ args.kind.v \in {"positivos", "sospechosos"}
       \/ args.kind.t = "list" /\ Range(args.kind.v) \subseteq {"positivos", "sospechosos"}

\* the dates and kinds the caller configured
GivenDates == IF args.date.t = "list" THEN args.date.v ELSE <<args.date>>
GivenKinds ==
    CASE args.kind.t = "str" -> <<args.kind.v>>
      [] args.kind.t = "list" -> args.kind.v
      [] OTHER -> <<"positivos", "sospechosos">>
GivenPairs == product(GivenDates, GivenKinds)

\* C2: for an accepted configuration get_data reads the combinations of the
\* configured dates and kinds in product order, dates outermost: the tables
\* fetched so far are those of the first combinations, and a get_data that
\* returns has fetched one table for each of them; get_data never fails for
\* lack of the kinds.
C2_ProductOrder ==
    (op = "get_data" /\ Accepted) =>
        /\ err.type /= "AttributeError"
        /\ Len(Successes) <= Len(GivenPairs)
        /\ \A k \in 1..Len(Successes) :
            /\ k <= Len(GivenPairs) => Successes[k].kind = GivenPairs[k].kind
            /\ (k <= Len(GivenPairs) /\ ~self.search_date) =>
                    Successes[k].date = GivenPairs[k].date.v
        /\ (ret.t /= "none" => Len(Successes) = Len(GivenPairs))

\* C5: after a construction that did not fail, the kinds are set and are
\* among 'positivos' and 'sospechosos', and the dates are not empty.
C5_RequestInvariant ==
    pc \notin {"new", "failed"} =>
        /\ self.kind.has
        /\ Range(self.kind.v) \subseteq {"positivos", "sospechosos"}
        /\ self.date /= <<>>

\* C8: with clean and without add_search_date, get_data does not fail on a
\* fetched table that has n_caso and a parseable fecha_de_inicio_de_sintomas.
C8_CleanWithoutSearchDate ==
    (/\ op = "get_data"
     /\ pc = "done"
     /\ self.clean
     /\ ~self.add_search_date
     /\ j \in 1..Len(dfs)
     /\ dfs[j].n_caso
     /\ dfs[j].sintomas = "ok")
        => err.type = "none"

\* the date strings the caller supplied
SuppliedDates ==
    IF args.date.t = "list" THEN {args.date.v[k].v : k \in 1..Len(args.date.v)}
    ELSE {args.date.v}

\* C10: the search flag is set exactly when no date was given; with a date
\* given, get_data enters no backward search and fetches only for the dates
\* given; with no date given, each kind is searched over at most 5 candidates
\* and the fecha_busqueda injected is the date found.
C10_SearchModeIffNoDate ==
    pc \notin {"new", "failed"} =>
        /\ (self.search_date <=> args.date.t = "none")
        /\ (op = "get_data" /\ args.date.t /= "none") =>
              /\ ~Searched
              /\ \A k \in 1..Len(fetchLog) : fetchLog[k].date \in SuppliedDates
        /\ (op = "get_data" /\ args.date.t = "none") =>
              /\ Len(fetchLog) <= SearchMaxTimes * Len(self.kind.v)
              /\ \A k \in 1..Len(fetchLog) : fetchLog[k].via = "search_data"
              /\ (self.add_search_date /\ pc = "read") =>
                    \A k \in 1..Len(dfs) : dfs[k].fecha_busqueda = Successes[k].date
====
